---- MODULE Spec2Model ----
(***************************************************************************)
(* Bac Bo pattern tracker (src/bacbo-web-completo/src/components/ui/       *)
(* button.jsx): the bulk text parser, the statistics engine and the        *)
(* component state (history, bulk text, polling, JSON import).             *)
(*                                                                         *)
(* Strings are sequences of one-character strings, so that upper-casing,   *)
(* the two regular expressions of parseBulk and String.split are modelled  *)
(* character by character.                                                 *)
(***************************************************************************)
EXTENDS Integers, Sequences, FiniteSets, TLC

VARIABLES history, bulk, nextId, pollUrl, pollSec, polls, reader, stats, signals

vars == <<history, bulk, nextId, pollUrl, pollSec, polls, reader, stats, signals>>

(***************************************************************************)
(* Bounds of the model                                                     *)
(***************************************************************************)
MaxBulkLen == 3      \* longest exhaustively enumerated bulk text
MaxHist == 3         \* longest history the appending handlers build
MaxUid == 3          \* number of identifiers uid() hands out

(***************************************************************************)
(* Types (lines 37-49)                                                     *)
(***************************************************************************)
COLORS == {"R", "B", "T"}

Null == "null"       \* JavaScript null / undefined where a string is expected
NoId == 0            \* a record without id (undefined, falsy)
NoTs == 0            \* a record without ts (undefined, falsy)

\* the values Date.now() returns
Times == {1}

Result(id, v, ts) == [id |-> id, v |-> v, ts |-> ts]

\* s.slice(i - 1, j), and s without its k-th element
Slice(s, i, j) == IF i > j THEN <<>> ELSE SubSeq(s, i, j)

RemoveAt(seq, k) == Slice(seq, 1, k - 1) \o Slice(seq, k + 1, Len(seq))

\* the component before its first render: no snapshot yet
NoStats == [total |-> -1]

(***************************************************************************)
(* Characters                                                              *)
(***************************************************************************)
LowerAlpha == <<"a","b","c","d","e","f","g","h","i","j","k","l","m",
                "n","o","p","q","r","s","t","u","v","w","x","y","z">>
UpperAlpha == <<"A","B","C","D","E","F","G","H","I","J","K","L","M",
                "N","O","P","Q","R","S","T","U","V","W","X","Y","Z">>

LowerLetters == {LowerAlpha[i] : i \in 1..26}

\* the characters the class \s matches, among those the model uses
WhiteSpace == {" ", "\t", "\n"}

\* String.prototype.toUpperCase, one character
toUpperCaseChar(c) ==
  IF \E i \in 1..26 : LowerAlpha[i] = c
  THEN UpperAlpha[CHOOSE i \in 1..26 : LowerAlpha[i] = c]
  ELSE c

toUpperCase(s) == [i \in 1..Len(s) |-> toUpperCaseChar(s[i])]

\* the class [^RBTREDLUEI\s,;\-\|] of line 72 is the complement of this set
CleanKeep == {"R","B","T","E","D","L","U","I"} \cup WhiteSpace \cup {",", ";", "-", "|"}

\* replaceAll(/[^RBTREDLUEI\s,;\-\|]/g, " ")
cleanText(s) == [i \in 1..Len(s) |-> IF s[i] \in CleanKeep THEN s[i] ELSE " "]

\* the class [\s,;\\-|] of line 73: \s, comma, semicolon and the RANGE from
\* backslash (0x5C) to pipe (0x7C), that is backslash, ], caret, underscore,
\* grave accent (left out: no text of the model has it), a..z, { and |.
\* The hyphen (0x2D) is not in the class.
SplitClass == WhiteSpace \cup {",", ";"}
                \cup {"\\", "]", "^", "_", "{", "|"} \cup LowerLetters

\* String.prototype.split(/[...]+/): the pieces between maximal runs of
\* separator characters, empty pieces at both ends included
RECURSIVE SplitRec(_, _, _, _)
SplitRec(s, i, cur, acc) ==
  IF i > Len(s) THEN Append(acc, cur)
  ELSE IF s[i] \in SplitClass
       THEN IF i > 1 /\ s[i-1] \in SplitClass
            THEN SplitRec(s, i + 1, cur, acc)
            ELSE SplitRec(s, i + 1, <<>>, Append(acc, cur))
       ELSE SplitRec(s, i + 1, Append(cur, s[i]), acc)

split(s) == SplitRec(s, 1, <<>>, <<>>)

\* the .map callback of lines 74-80
tokenTagKeepsUnknown(t) ==
  IF t = <<>> THEN Null
  ELSE IF t \in {<<"R">>, <<"R","E","D">>} THEN "R"
  ELSE IF t \in {<<"B">>, <<"B","L","U","E">>} THEN "B"
  ELSE "T"
tokenTag(t) ==
  IF t = <<>> THEN Null
  ELSE IF t \in {<<"R">>, <<"R","E","D">>} THEN "R"
  ELSE IF t \in {<<"B">>, <<"B","L","U","E">>} THEN "B"
  ELSE IF t \in {<<"T">>, <<"T","I","E">>} THEN "T"
  ELSE Null

Truthy(x) == x # Null

\* parseBulk (lines 69-82)
parseBulk(text) ==
  LET toks == split(cleanText(toUpperCase(text)))
      mapped == [i \in 1..Len(toks) |-> tokenTag(toks[i])]
  IN SelectSeq(mapped, Truthy)

(***************************************************************************)
(* Inputs of the bulk text field                                           *)
(***************************************************************************)
\* the characters typed one at a time
BulkAlphabet == {"R", "b", "e", "X", " ", "-"}

ExampleTexts ==
  { <<"R", ",", "B", ",", "T">>,
    <<"r", " ", "b", " ", "t">>,
    <<" ", "R", " ", "-", " ", "B", " ", "|", " ", "T", " ">>,
    <<"R", "-", "B", "-", "T">>,
    <<"R", " ", "B", " ", "X", " ", "R", " ", "T">>,
    <<"R", "e", "d", ";", "b", "l", "u", "e", "\t", "T", "I", "E">>,
    <<"t", "i", "e", "-", "R", "E", "D">>,
    <<"?", "!">> }

\* the values the input element can report to onChange: the text with one
\* more character typed, a pasted text, or the emptied field
BulkInputs(cur) ==
  {Append(cur, c) : c \in IF Len(cur) < MaxBulkLen THEN BulkAlphabet ELSE {}}
    \cup ExampleTexts \cup {<<>>}

(***************************************************************************)
(* uid (line 52): fresh identifiers, taken from a counter                  *)
(***************************************************************************)
\* the records  arr.map((v) => ({ id: uid(), v, ts: Date.now() }))
Stamp(arr, first, t) == [i \in 1..Len(arr) |-> Result(first + i - 1, arr[i], t)]

CanAdd(k) == Len(history) + k <= MaxHist /\ nextId + k - 1 <= MaxUid

(***************************************************************************)
(* Handlers of the bulk text field                                         *)
(***************************************************************************)
\* onChange of the bulk input (line 382): setBulk(e.target.value)
SetBulkTo(texts) ==
  /\ \E text \in texts : bulk' = text
  /\ UNCHANGED <<history, nextId, pollUrl, pollSec, polls, reader, stats, signals>>

SetBulk == SetBulkTo(BulkInputs(bulk))

\* handleBulkAdd (lines 257-262)
handleBulkAdd ==
  LET arr == parseBulk(bulk) IN
  /\ IF Len(arr) = 0
     THEN UNCHANGED <<history, nextId, bulk>>
     ELSE /\ CanAdd(Len(arr))
          /\ \E t \in Times : history' = history \o Stamp(arr, nextId, t)
          /\ nextId' = nextId + Len(arr)
          /\ bulk' = <<>>
  /\ UNCHANGED <<pollUrl, pollSec, polls, reader, stats, signals>>


InitBulk ==
  /\ history = <<>>
  /\ bulk = <<>>
  /\ nextId = 1
  /\ pollUrl = ""
  /\ pollSec = 0
  /\ polls = <<>>
  /\ reader = <<>>
  /\ stats = NoStats
  /\ signals = <<>>

NextBulk == SetBulk \/ handleBulkAdd

SpecBulk == InitBulk /\ [][NextBulk]_vars

(***************************************************************************)
(* computeStats (lines 85-193)                                             *)
(***************************************************************************)
Max(a, b) == IF a >= b THEN a ELSE b

\* const seq = history.map((r) => r.v)  (line 87)
seqOf(h) == [i \in 1..Len(h) |-> h[i].v]

\* the alternation loop (lines 90-96)
RECURSIVE AlternationsRec(_, _, _, _)
AlternationsRec(seq, i, lastColor, alternations) ==
  IF i > Len(seq) THEN alternations
  ELSE IF seq[i] = "T" THEN AlternationsRec(seq, i + 1, lastColor, alternations)
  ELSE AlternationsRec(seq, i + 1, seq[i],
         IF lastColor # Null /\ seq[i] # lastColor
         THEN alternations + 1 ELSE alternations)

\* variant: a Tie forgets the last colour
RECURSIVE AlternationsResetRec(_, _, _, _)
AlternationsResetRec(seq, i, lastColor, alternations) ==
  IF i > Len(seq) THEN alternations
  ELSE IF seq[i] = "T" THEN AlternationsResetRec(seq, i + 1, Null, alternations)
  ELSE AlternationsResetRec(seq, i + 1, seq[i],
         IF lastColor # Null /\ seq[i] # lastColor
         THEN alternations + 1 ELSE alternations)

alternationsResetOnTie(seq) == AlternationsResetRec(seq, 1, Null, 0)
\* variant: the first non-Tie outcome is compared with a colour that is set
alternationsCountFirst(seq) == AlternationsRec(seq, 1, "none", 0)
alternationsOf(seq) == AlternationsRec(seq, 1, Null, 0)

\* the current-streak loop, right to left (lines 99-112)
RECURSIVE CurrentRec(_, _, _, _)
CurrentRec(seq, i, currentColor, currentStreak) ==
  IF i < 1 THEN [currentStreak |-> currentStreak, currentColor |-> currentColor]
  ELSE IF seq[i] = "T"
       THEN [currentStreak |-> currentStreak, currentColor |-> currentColor]
  ELSE IF currentColor = Null THEN CurrentRec(seq, i - 1, seq[i], 1)
  ELSE IF seq[i] = currentColor
       THEN CurrentRec(seq, i - 1, currentColor, currentStreak + 1)
  ELSE [currentStreak |-> currentStreak, currentColor |-> currentColor]

currentOf(seq) == CurrentRec(seq, Len(seq), Null, 0)

\* the longest-streak loop and its final flush (lines 115-126)
RECURSIVE LongestRec(_, _, _, _, _)
LongestRec(seq, i, runColor, runLen, longest) ==
  IF i > Len(seq)
  THEN IF runColor # Null
       THEN [longest EXCEPT ![runColor] = Max(longest[runColor], runLen)]
       ELSE longest
  ELSE IF runColor = seq[i]
       THEN LongestRec(seq, i + 1, runColor, runLen + 1, longest)
  ELSE LongestRec(seq, i + 1, seq[i], 1,
         IF runColor # Null
         THEN [longest EXCEPT ![runColor] = Max(longest[runColor], runLen)]
         ELSE longest)

\* variant: without the flush after the loop (line 126)
RECURSIVE LongestNoFlushRec(_, _, _, _, _)
LongestNoFlushRec(seq, i, runColor, runLen, longest) ==
  IF i > Len(seq) THEN longest
  ELSE IF runColor = seq[i]
       THEN LongestNoFlushRec(seq, i + 1, runColor, runLen + 1, longest)
  ELSE LongestNoFlushRec(seq, i + 1, seq[i], 1,
         IF runColor # Null
         THEN [longest EXCEPT ![runColor] = Max(longest[runColor], runLen)]
         ELSE longest)

longestNoFinalFlush(seq) == LongestNoFlushRec(seq, 1, Null, 0, [c \in COLORS |-> 0])
longestOf(seq) == LongestRec(seq, 1, Null, 0, [c \in COLORS |-> 0])

\* the streak distribution (lines 129-158)
Buckets == {"1", "2", "3", "4", "5", "6+"}

\* variant: a run of five already falls into the open bucket
bucketOfFiveUp(runLen) == IF runLen >= 5 THEN "6+" ELSE <<"1", "2", "3", "4", "5">>[runLen]
bucketOf(runLen) == IF runLen >= 6 THEN "6+" ELSE <<"1", "2", "3", "4", "5">>[runLen]

\* lines 137-140, 147-150 and 155-158: count the run that just ended
flushRun(dist, runColor, runLen) ==
  IF runColor # Null /\ (runColor = "R" \/ runColor = "B")
  THEN [dist EXCEPT ![runColor][bucketOf(runLen)] = @ + 1]
  ELSE dist

RECURSIVE DistRec(_, _, _, _, _)
DistRec(seq, i, runColor, runLen, dist) ==
  IF i > Len(seq) THEN flushRun(dist, runColor, runLen)
  ELSE IF seq[i] = "T"
       THEN DistRec(seq, i + 1, Null, 0, flushRun(dist, runColor, runLen))
  ELSE IF runColor = seq[i]
       THEN DistRec(seq, i + 1, runColor, runLen + 1, dist)
  ELSE DistRec(seq, i + 1, seq[i], 1, flushRun(dist, runColor, runLen))

distOf(seq) == DistRec(seq, 1, Null, 0, [c \in {"R", "B"} |-> [b \in Buckets |-> 0]])

\* the recent window (lines 86, 161-163)
WindowSize == 20

lastN(h, n) == IF Len(h) <= n THEN h ELSE SubSeq(h, Len(h) - n + 1, Len(h))

last20Of(h) ==
  LET last20 == seqOf(lastN(h, WindowSize))
  IN [c \in COLORS |-> Cardinality({i \in 1..Len(last20) : last20[i] = c})]

\* the zebra loop (lines 166-181)
RECURSIVE ZebraRec(_, _, _, _, _)
ZebraRec(seq, i, lastColor, zebraCur, zebraMax) ==
  IF i > Len(seq) THEN zebraMax
  ELSE IF seq[i] = "T"
       THEN ZebraRec(seq, i + 1, Null, 0, Max(zebraMax, zebraCur))
  ELSE LET cur == IF lastColor # Null /\ seq[i] # lastColor THEN zebraCur + 1
                  ELSE IF lastColor = Null THEN 1
                  ELSE 1
       IN ZebraRec(seq, i + 1, seq[i], cur, Max(zebraMax, cur))

\* variant: a repeated colour continues the run instead of restarting it
RECURSIVE ZebraNoRestartRec(_, _, _, _, _)
ZebraNoRestartRec(seq, i, lastColor, zebraCur, zebraMax) ==
  IF i > Len(seq) THEN zebraMax
  ELSE IF seq[i] = "T"
       THEN ZebraNoRestartRec(seq, i + 1, Null, 0, Max(zebraMax, zebraCur))
  ELSE ZebraNoRestartRec(seq, i + 1, seq[i], zebraCur + 1, Max(zebraMax, zebraCur + 1))

zebraMaxNoRestart(seq) == ZebraNoRestartRec(seq, 1, Null, 0, 0)
zebraMaxOf(seq) == ZebraRec(seq, 1, Null, 0, 0)

computeStats(h) ==
  LET seq == seqOf(h) IN
  [ total |-> Len(h),
    alternations |-> alternationsOf(seq),
    currentStreak |-> currentOf(seq).currentStreak,
    currentColor |-> currentOf(seq).currentColor,
    longest |-> longestOf(seq),
    dist |-> distOf(seq),
    last20 |-> last20Of(h),
    zebraMax |-> zebraMaxOf(seq) ]

\* num / den >= 0.6 in IEEE doubles, for counts of at most WindowSize outcomes:
\* the quotient is the double nearest to num/den; when num/den = 3/5 that is
\* the double the literal 0.6 denotes, and every other quotient is at least
\* 1/100 away from it, so the comparison is the exact one, 10 num >= 6 den
AtLeastSixTenths(num, den) == 10 * num >= 6 * den

\* variant: the bias is taken over the non-Tie outcomes of the window
signalsBiasOverNonTies(s) ==
  LET total20 == s.last20["R"] + s.last20["B"]
      redOn == IF total20 > 0 THEN AtLeastSixTenths(s.last20["R"], total20) ELSE FALSE
      blueOn == IF total20 > 0 THEN AtLeastSixTenths(s.last20["B"], total20) ELSE FALSE
  IN << [id |-> "zebra", on |-> s.zebraMax >= 5],
        [id |-> "streaklong", on |-> s.longest["R"] >= 5 \/ s.longest["B"] >= 5],
        [id |-> "bias", on |-> redOn \/ blueOn],
        [id |-> "ties", on |-> s.last20["T"] >= 3] >>

\* signals (lines 310-345): redBias and blueBias are 0 for an empty window,
\* and 0 >= 0.6 is false
signalsOf(s) ==
  LET total20 == s.last20["R"] + s.last20["B"] + s.last20["T"]
      redOn == IF total20 > 0 THEN AtLeastSixTenths(s.last20["R"], total20) ELSE FALSE
      blueOn == IF total20 > 0 THEN AtLeastSixTenths(s.last20["B"], total20) ELSE FALSE
  IN << [id |-> "zebra", on |-> s.zebraMax >= 5],
        [id |-> "streaklong", on |-> s.longest["R"] >= 5 \/ s.longest["B"] >= 5],
        [id |-> "bias", on |-> redOn \/ blueOn],
        [id |-> "ties", on |-> s.last20["T"] >= 3] >>

\* one render: stats = useMemo(() => computeStats(history), [history]) (line
\* 221) and signals = useMemo(..., [stats]) (lines 310-345)
Render ==
  /\ stats' = computeStats(history)
  /\ signals' = signalsOf(stats')
  /\ UNCHANGED <<history, bulk, nextId, pollUrl, pollSec, polls, reader>>

MaxStatsLen == 7     \* longest history given to computeStats

RECURSIVE ValueSeqs(_)
ValueSeqs(n) ==
  IF n = 0 THEN {<<>>}
  ELSE {Append(q, v) : q \in ValueSeqs(n - 1), v \in COLORS}

\* the histories push builds from the empty one: identifiers in order
StatsHistories ==
  {[i \in 1..Len(q) |-> Result(i, q[i], 1)] :
     q \in UNION {ValueSeqs(n) : n \in 0..MaxStatsLen}}

MaxOverflow == 2     \* most outcomes a long history has before its recent window

Repeat(v, n) == [i \in 1..n |-> v]

\* histories of WindowSize outcomes and more: up to MaxOverflow older outcomes,
\* then a window of one colour followed by another
WindowHistories ==
  {[i \in 1..Len(q) |-> Result(i, q[i], 1)] :
     q \in {old \o Repeat(a, m) \o Repeat(b, WindowSize - m) :
              old \in UNION {ValueSeqs(k) : k \in 0..MaxOverflow},
              a \in COLORS, b \in COLORS, m \in 0..WindowSize}}

InitStats ==
  /\ history \in StatsHistories \cup WindowHistories
  /\ bulk = <<>>
  /\ nextId = MaxUid + 1
  /\ pollUrl = ""
  /\ pollSec = 0
  /\ polls = <<>>
  /\ reader = <<>>
  /\ stats = NoStats
  /\ signals = <<>>

NextStats == Render

SpecStats == InitStats /\ [][NextStats]_vars


(***************************************************************************)
(* JSON values: the content of an imported file or of a poll response      *)
(***************************************************************************)
Undefined == [type |-> "undefined"]
JNull == [type |-> "null"]
Num(n) == [type |-> "number", num |-> n]
Str(chars) == [type |-> "string", str |-> chars]
Arr(items) == [type |-> "array", items |-> items]
\* an object; a field it does not have is Undefined (NoId, NoTs for id, ts)
Obj(results, v, id, ts) ==
  [type |-> "object", results |-> results, v |-> v, id |-> id, ts |-> ts]
\* a text JSON.parse rejects
SyntaxError == [type |-> "syntaxerror"]

IsArray(j) == j.type = "array"

\* JavaScript truthiness of a JSON value
TruthyJson(j) ==
  CASE j.type \in {"undefined", "null", "syntaxerror"} -> FALSE
    [] j.type = "number" -> j.num # 0
    [] j.type = "string" -> j.str # <<>>
    [] OTHER -> TRUE

\* ["R", "B", "T"].includes(x) for a JSON value x
IncludesTag(j) == j.type = "string" /\ j.str \in {<<"R">>, <<"B">>, <<"T">>}

\* property access j.results / j.v; undefined on a primitive or an array
FieldResults(j) == IF j.type = "object" THEN j.results ELSE Undefined
FieldV(j) == IF j.type = "object" THEN j.v ELSE Undefined
FieldId(j) == IF j.type = "object" THEN j.id ELSE NoId
FieldTs(j) == IF j.type = "object" THEN j.ts ELSE NoTs

(***************************************************************************)
(* Inputs of the component                                                 *)
(***************************************************************************)
MaxItems == 2        \* longest array in a file, a response or the storage
MaxInflight == 1     \* file reads and poll callbacks in flight at once

FileIds == {101, 102}   \* identifiers found in files and in the storage

RECURSIVE SeqsUpTo(_, _)
SeqsUpTo(S, n) ==
  IF n = 0 THEN {<<>>}
  ELSE SeqsUpTo(S, n - 1)
         \cup {Append(q, x) : q \in {r \in SeqsUpTo(S, n - 1) : Len(r) = n - 1}, x \in S}

\* elements of a results array
TagElems == {Str(<<"R">>), Str(<<"B">>), Str(<<"X">>), Num(5), JNull}

\* elements of a top-level array
RecordElems ==
  { JNull,
    Obj(Undefined, Str(<<"R">>), 101, 1),
    Obj(Undefined, Str(<<"B">>), NoId, NoTs),
    Obj(Undefined, Str(<<"X">>), 102, 1) }

ResultsPayloads == {Obj(Arr(q), Undefined, NoId, NoTs) : q \in SeqsUpTo(TagElems, MaxItems)}

\* payloads whose top-level shape is neither an array nor {results: [...]}
MalformedPayloads ==
  {SyntaxError, JNull, Obj(Str(<<"R">>), Undefined, NoId, NoTs)}

ImportFiles ==
  {Arr(q) : q \in SeqsUpTo(RecordElems, MaxItems)}
    \cup ResultsPayloads \cup MalformedPayloads

PollBodies == ResultsPayloads \cup MalformedPayloads

\* what localStorage can hold under "bacbo-history": arrays of records, as an
\* earlier session or another tool wrote them (here with distinct records)
StoredRecords == {Result(101, "R", 1), Result(NoId, "T", NoTs), Result(102, "X", 1)}

StoredHistories ==
  {q \in SeqsUpTo(StoredRecords, MaxItems) :
     \A i \in 1..Len(q) : \A j \in 1..Len(q) : i # j => q[i] # q[j]}

PastedTexts == {<<"R", ",", "b">>, <<"?">>}

(***************************************************************************)
(* BacBoPatternTracker: state and handlers (lines 207-297, 471, 510-514)   *)
(***************************************************************************)
\* useState initializer (lines 208-212): JSON.parse(saved), or []
Init ==
  /\ history \in StoredHistories
  /\ bulk = <<>>
  /\ nextId = 1
  /\ pollUrl = ""
  /\ pollSec = 0
  /\ polls = <<>>
  /\ reader = <<>>
  /\ stats = NoStats
  /\ signals = <<>>

\* push (lines 245-247)
push ==
  /\ CanAdd(1)
  /\ \E v \in COLORS : \E t \in Times :
       history' = Append(history, Result(nextId, v, t))
  /\ nextId' = nextId + 1
  /\ UNCHANGED <<bulk, pollUrl, pollSec, polls, reader, stats, signals>>

\* undo (lines 249-251): h.slice(0, -1)
undo ==
  /\ history' = Slice(history, 1, Len(history) - 1)
  /\ UNCHANGED <<bulk, nextId, pollUrl, pollSec, polls, reader, stats, signals>>

\* clearAll (lines 253-255): only when the user confirms
clearAll ==
  /\ \E confirmed \in BOOLEAN :
       history' = IF confirmed THEN <<>> ELSE history
  /\ UNCHANGED <<bulk, nextId, pollUrl, pollSec, polls, reader, stats, signals>>

\* click on an entry of the detailed history (line 471):
\* setHistory((h) => h.filter((x) => x.id !== r.id))
removeById ==
  /\ \E i \in 1..Len(history) :
       history' = SelectSeq(history, LAMBDA x : x.id # history[i].id)
  /\ UNCHANGED <<bulk, nextId, pollUrl, pollSec, polls, reader, stats, signals>>

PasteBulk == SetBulkTo(PastedTexts)

\* onChange of the URL input (line 510)
SetPollUrl ==
  /\ \E u \in {"", "url"} : pollUrl' = u
  /\ UNCHANGED <<history, bulk, nextId, pollSec, polls, reader, stats, signals>>

\* onChange of the interval input (line 514)
SetPollSec ==
  /\ \E n \in {0, 1} : pollSec' = n
  /\ UNCHANGED <<history, bulk, nextId, pollUrl, polls, reader, stats, signals>>

\* records of a top-level array that pass the filter of line 281
ValidRecords(items) == SelectSeq(items, LAMBDA r : TruthyJson(r) /\ IncludesTag(FieldV(r)))

\* the elements of a results array that pass the filter of line 286
ValidTags(items) == SelectSeq(items, IncludesTag)

\* how many identifiers the map of line 282 takes from uid()
MissingIds(rs) == Cardinality({i \in 1..Len(rs) : FieldId(rs[i]) = NoId})

\* the map of line 282: { id: r.id || uid(), v: r.v, ts: r.ts || Date.now() }
RECURSIVE BackfillRec(_, _, _, _)
BackfillRec(rs, i, next, t) ==
  IF i > Len(rs) THEN <<>>
  ELSE LET r == rs[i]
           noId == FieldId(r) = NoId
       IN <<Result(IF noId THEN next ELSE FieldId(r),
                   FieldV(r).str[1],
                   IF FieldTs(r) = NoTs THEN t ELSE FieldTs(r))>>
            \o BackfillRec(rs, i + 1, IF noId THEN next + 1 ELSE next, t)

TagsOf(items) == [i \in 1..Len(items) |-> items[i].str[1]]

\* an asynchronous operation (a file read, a poll callback) may start
CanStart == Len(reader) + Len(polls) < MaxInflight

\* importJson (lines 274-297): the FileReader starts to read the file
importJson ==
  /\ CanStart
  /\ \E file \in ImportFiles : reader' = Append(reader, file)
  /\ UNCHANGED <<history, bulk, nextId, pollUrl, pollSec, polls, stats, signals>>

\* reader.onload (lines 276-295); JSON.parse throws on a malformed text and
\* parsed.results throws on null: both end in the catch of line 292
readerOnload ==
  \E k \in 1..Len(reader) :
    LET parsed == reader[k] IN
    /\ reader' = RemoveAt(reader, k)
    /\ IF parsed.type = "syntaxerror" \/ parsed.type = "null"
       THEN UNCHANGED <<history, nextId>>
       ELSE IF IsArray(parsed)
       THEN LET valid == ValidRecords(parsed.items) IN
            /\ nextId + MissingIds(valid) - 1 <= MaxUid
            /\ \E t \in Times : history' = BackfillRec(valid, 1, nextId, t)
            /\ nextId' = nextId + MissingIds(valid)
       ELSE IF IsArray(FieldResults(parsed))
       THEN LET valid == ValidTags(FieldResults(parsed).items) IN
            /\ nextId + Len(valid) - 1 <= MaxUid
            /\ \E t \in Times : history' = Stamp(TagsOf(valid), nextId, t)
            /\ nextId' = nextId + Len(valid)
       ELSE UNCHANGED <<history, nextId>>
    /\ UNCHANGED <<bulk, pollUrl, pollSec, polls, stats, signals>>

\* useInterval (lines 195-205, 242): the timer exists while pollSec > 0 and
\* calls the latest callback; the callback (lines 225-228) returns at once
\* without a URL and otherwise starts the fetch
pollTick ==
  /\ pollSec > 0
  /\ IF pollUrl = ""
     THEN UNCHANGED polls
     ELSE /\ CanStart
          /\ polls' = Append(polls, [pc |-> "fetch", body |-> Undefined])
  /\ UNCHANGED <<history, bulk, nextId, pollUrl, pollSec, reader, stats, signals>>

\* await fetch(pollUrl) resolves with a response (line 228)
fetchResolves ==
  /\ \E k \in 1..Len(polls) : \E body \in PollBodies :
       /\ polls[k].pc = "fetch"
       /\ polls' = [polls EXCEPT ![k] = [pc |-> "json", body |-> body]]
  /\ UNCHANGED <<history, bulk, nextId, pollUrl, pollSec, reader, stats, signals>>

\* await fetch(pollUrl) rejects: the catch of line 238 swallows the error
fetchRejects ==
  /\ \E k \in 1..Len(polls) :
       /\ polls[k].pc = "fetch"
       /\ polls' = RemoveAt(polls, k)
  /\ UNCHANGED <<history, bulk, nextId, pollUrl, pollSec, reader, stats, signals>>

\* x => (x || "").toUpperCase() (line 232) throws on a truthy non-string
UpperThrows(items) ==
  \E i \in 1..Len(items) : TruthyJson(items[i]) /\ items[i].type # "string"

\* lines 231-233 for an array on which the map does not throw
sanitized(items) ==
  LET upper == [i \in 1..Len(items) |->
                  IF TruthyJson(items[i]) THEN toUpperCase(items[i].str) ELSE <<>>]
      kept == SelectSeq(upper, LAMBDA x : x \in {<<"R">>, <<"B">>, <<"T">>})
  IN [i \in 1..Len(kept) |-> kept[i][1]]

\* await res.json() settles and the rest of the callback runs (lines 229-240):
\* a rejected res.json() and a throwing map end in the catch of line 238
jsonSettles ==
  \E k \in 1..Len(polls) :
    LET data == polls[k].body IN
    /\ polls[k].pc = "json"
    /\ polls' = RemoveAt(polls, k)
    /\ IF data.type = "syntaxerror"
       THEN UNCHANGED <<history, nextId>>
       ELSE IF ~IsArray(FieldResults(data))
       THEN UNCHANGED <<history, nextId>>
       ELSE IF UpperThrows(FieldResults(data).items)
       THEN UNCHANGED <<history, nextId>>
       ELSE LET tags == sanitized(FieldResults(data).items) IN
            /\ nextId + Len(tags) - 1 <= MaxUid
            /\ nextId' = nextId + Len(tags)
            /\ IF Len(tags) > 0
               THEN \E t \in Times : history' = Stamp(tags, nextId, t)
               ELSE history' = history
    /\ UNCHANGED <<bulk, pollUrl, pollSec, reader, stats, signals>>

Next ==
  \/ push \/ undo \/ clearAll \/ removeById
  \/ PasteBulk \/ handleBulkAdd
  \/ importJson \/ readerOnload
  \/ SetPollUrl \/ SetPollSec \/ pollTick \/ fetchResolves \/ fetchRejects \/ jsonSettles

Spec == Init /\ [][Next]_vars


(***************************************************************************)
(* Bulk parser: properties                                                 *)
(***************************************************************************)
\* the separators the parser is documented to split on
Separators == WhiteSpace \cup {",", ";", "-", "|"}

\* the letters of the token alphabet, in either case
TokenLetters == {c \in LowerLetters \cup {UpperAlpha[i] : i \in 1..26} :
                   toUpperCaseChar(c) \in {"R","B","T","E","D","L","U","I"}}

RecognizedWords == {<<"R">>, <<"R","E","D">>, <<"B">>, <<"B","L","U","E">>,
                    <<"T">>, <<"T","I","E">>}

WordTag(w) == w[1]

\* text[i..j] is a maximal run of characters that are not separators
IsRun(text, i, j, seps) ==
  /\ \A k \in i..j : text[k] \notin seps
  /\ i = 1 \/ text[i - 1] \in seps
  /\ j = Len(text) \/ text[j + 1] \in seps

\* the maximal runs of non-separator characters, left to right
RECURSIVE RunsFrom(_, _, _)
RunsFrom(text, i, seps) ==
  IF i > Len(text) THEN <<>>
  ELSE IF text[i] \in seps THEN RunsFrom(text, i + 1, seps)
  ELSE LET j == CHOOSE k \in i..Len(text) : IsRun(text, i, k, seps)
       IN <<Slice(text, i, j)>> \o RunsFrom(text, j + 1, seps)

\* the text is recognized words joined by non-empty runs of separators
\* (only whitespace may come before the first word and after the last)
IsWordList(text) ==
  LET ws == RunsFrom(text, 1, Separators)
  IN /\ ws # <<>>
     /\ \A i \in 1..Len(ws) : toUpperCase(ws[i]) \in RecognizedWords
     /\ \A i \in 1..Len(text) :
          text[i] \in Separators \ WhiteSpace
            => /\ \E j \in 1..(i - 1) : text[j] \notin Separators
               /\ \E j \in (i + 1)..Len(text) : text[j] \notin Separators

WordListTags(text) ==
  LET ws == RunsFrom(text, 1, Separators)
  IN [i \in 1..Len(ws) |-> WordTag(toUpperCase(ws[i]))]

\* C1: a text of recognized words (any letter case) joined by non-empty runs
\* of whitespace, commas, semicolons, hyphens and pipes parses to exactly the
\* tags of its words, in order
C1_SplitsOnEverySeparator ==
  IsWordList(bulk) => parseBulk(bulk) = WordListTags(bulk)

\* every character is a separator or noise: no letter of the token alphabet
AllNoise(text) == \A i \in 1..Len(text) : text[i] \notin TokenLetters

\* the characters that end a token: separators and noise
TokenEnds(text) == {text[i] : i \in 1..Len(text)} \ TokenLetters

\* deleting an unrecognized token from the text does not change the result
DropsUnrecognized(text) ==
  \A i \in 1..Len(text) : \A j \in i..Len(text) :
    (/\ IsRun(text, i, j, Separators \cup TokenEnds(text))
     /\ toUpperCase(Slice(text, i, j)) \notin RecognizedWords)
    => parseBulk(text) =
         parseBulk(Slice(text, 1, i - 1) \o Slice(text, j + 1, Len(text)))

Values(h) == [i \in 1..Len(h) |-> h[i].v]

C2_State ==
  /\ \A i \in 1..Len(parseBulk(bulk)) : parseBulk(bulk)[i] \in COLORS
  /\ DropsUnrecognized(bulk)
  /\ AllNoise(bulk) => parseBulk(bulk) = <<>>
  /\ bulk = <<"R", " ", "B", " ", "X", " ", "R", " ", "T">>
       => parseBulk(bulk) = <<"R", "B", "R", "T">>

\* a step that keeps the text is a step of handleBulkAdd
C2_Step ==
  (bulk' = bulk /\ parseBulk(bulk) = <<>>) => history' = history

\* C2: parseBulk returns only the tags R, B, T for every text; an unrecognized
\* token is dropped and the rest of the text parses as without it; a text
\* without token letters parses to the empty sequence, and handleBulkAdd then
\* leaves history unchanged
C2_TotalAndLenient == [](C2_State) /\ [][C2_Step]_vars

\* handleBulkAdd ran on a text with no recognized token, after an earlier
\* bulk add of three outcomes
C2_Witness ==
  /\ bulk # <<>> /\ parseBulk(bulk) = <<>>
  /\ \E i \in 1..Len(bulk) : \E j \in i..Len(bulk) :
       /\ IsRun(bulk, i, j, Separators \cup TokenEnds(bulk))
       /\ toUpperCase(Slice(bulk, i, j)) \notin RecognizedWords
  /\ Values(history) = <<"B", "R">>

(***************************************************************************)
(* Statistics engine: properties                                           *)
(***************************************************************************)
Scenario == <<"R", "R", "R", "B", "B", "T", "R">>

ScenarioStreaks ==
  /\ stats.longest = [c \in COLORS |-> CASE c = "R" -> 3 [] c = "B" -> 2 [] c = "T" -> 1]
  /\ stats.currentStreak = 1
  /\ stats.currentColor = "R"

\* C3 as stated: for [R,R,R,B,B,T,R] longest = {R:3, B:2, T:1}, currentStreak
\* = 1, currentColor = R and alternations = 1
C3_ScenarioOneAlternation ==
  (stats # NoStats /\ seqOf(history) = Scenario)
    => (ScenarioStreaks /\ stats.alternations = 1)

\* C3 amended: for [R,R,R,B,B,T,R] longest = {R:3, B:2, T:1}, currentStreak
\* = 1, currentColor = R and alternations = 2: the Red after the Tie is
\* compared with the Blue before it
C3_ScenarioTwoAlternations ==
  (stats # NoStats /\ seqOf(history) = Scenario)
    => (ScenarioStreaks /\ stats.alternations = 2)

C3_Witness == stats # NoStats /\ seqOf(history) = Scenario /\ stats.alternations = 2

NonTies(seq) == SelectSeq(seq, LAMBDA v : v # "T")

HasNonTie(seq) == \E i \in 1..Len(seq) : seq[i] # "T"

\* two adjacent outcomes, both non-Tie, of different colour
HasAlternatingPair(seq) ==
  \E i \in 1..(Len(seq) - 1) :
    seq[i] # "T" /\ seq[i + 1] # "T" /\ seq[i] # seq[i + 1]

\* C6 as stated: zebraMax <= total, and zebraMax = 0 for a history with no
\* non-Tie outcome or with no two adjacent non-Tie outcomes of different colour
C6_ZebraZeroWithoutPair ==
  stats # NoStats =>
    /\ stats.zebraMax <= stats.total
    /\ ~HasAlternatingPair(seqOf(history)) => stats.zebraMax = 0

\* C6 amended: zebraMax <= total; zebraMax = 0 for a history with no non-Tie
\* outcome; zebraMax = 1 for a history with a non-Tie outcome but no two
\* adjacent non-Tie outcomes of different colour
C6_ZebraOneWithoutPair ==
  stats # NoStats =>
    /\ stats.zebraMax <= stats.total
    /\ ~HasNonTie(seqOf(history)) => stats.zebraMax = 0
    /\ (HasNonTie(seqOf(history)) /\ ~HasAlternatingPair(seqOf(history)))
         => stats.zebraMax = 1

C6_Witness ==
  stats # NoStats /\ seqOf(history) = <<"R", "T", "B", "B">> /\ stats.zebraMax = 1

\* the adjacent unequal pairs of a sequence
UnequalPairs(seq) == Cardinality({i \in 1..(Len(seq) - 1) : seq[i] # seq[i + 1]})

InsertTie(seq, k) == Slice(seq, 1, k) \o <<"T">> \o Slice(seq, k + 1, Len(seq))

\* C9: alternations equals the number of adjacent unequal pairs of the
\* Tie-free subsequence, and inserting a Tie anywhere or removing any Tie
\* leaves it unchanged
C9_AlternationsIgnoreTies ==
  stats # NoStats =>
    LET seq == seqOf(history) IN
    /\ stats.alternations = UnequalPairs(NonTies(seq))
    /\ \A k \in 0..Len(seq) : alternationsOf(InsertTie(seq, k)) = stats.alternations
    /\ \A k \in 1..Len(seq) :
         seq[k] = "T" => alternationsOf(RemoveAt(seq, k)) = stats.alternations

C9_Witness ==
  /\ stats # NoStats
  /\ seqOf(history) = <<"T", "R", "T", "B", "T", "T", "R">>
  /\ stats.alternations = 2

\* C10: when currentColor is Red or Blue, longest[currentColor] >= currentStreak
C10_LongestCoversCurrent ==
  (stats # NoStats /\ stats.currentColor \in {"R", "B"})
    => stats.longest[stats.currentColor] >= stats.currentStreak

C10_Witness ==
  /\ stats # NoStats
  /\ seqOf(history) = <<"B", "B", "B", "T", "R", "B", "B">>
  /\ stats.currentColor = "B" /\ stats.currentStreak = 2 /\ stats.longest["B"] = 3

\* seq[i..j] is a maximal contiguous run of colour c: it cannot be extended to
\* the left or to the right (a Tie, the other colour or an end of the history)
IsMaximalRun(seq, c, i, j) ==
  /\ i <= j
  /\ \A k \in i..j : seq[k] = c
  /\ i = 1 \/ seq[i - 1] # c
  /\ j = Len(seq) \/ seq[j + 1] # c

MaximalRuns(seq, c) ==
  {r \in (1..Len(seq)) \X (1..Len(seq)) : IsMaximalRun(seq, c, r[1], r[2])}

RunLength(r) == r[2] - r[1] + 1

\* the bucket of a run length: the length itself up to 5, "6+" above
LengthBucket(n) ==
  CASE n = 1 -> "1" [] n = 2 -> "2" [] n = 3 -> "3" [] n = 4 -> "4" [] n = 5 -> "5"
    [] OTHER -> "6+"

RECURSIVE SumBuckets(_, _)
SumBuckets(d, bs) ==
  IF bs = {} THEN 0
  ELSE LET b == CHOOSE x \in bs : TRUE IN d[b] + SumBuckets(d, bs \ {b})

\* C11: for Red and Blue, every maximal contiguous run of the colour is counted
\* exactly once, in the bucket of its length (the length up to 5, "6+" above);
\* the buckets of a colour sum to the number of its maximal runs
C11_DistCountsMaximalRuns ==
  stats # NoStats =>
    LET seq == seqOf(history) IN
    \A c \in {"R", "B"} :
      /\ DOMAIN stats.dist[c] = {"1", "2", "3", "4", "5", "6+"}
      /\ \A b \in DOMAIN stats.dist[c] :
           stats.dist[c][b] =
             Cardinality({r \in MaximalRuns(seq, c) : LengthBucket(RunLength(r)) = b})
      /\ SumBuckets(stats.dist[c], DOMAIN stats.dist[c]) = Cardinality(MaximalRuns(seq, c))

\* a run of five ended by a Tie, then a run of one ended by the history's end
C11_Witness ==
  /\ stats # NoStats
  /\ seqOf(history) = <<"B", "B", "B", "B", "B", "T", "B">>
  /\ stats.dist["B"]["5"] = 1 /\ stats.dist["B"]["1"] = 1 /\ stats.dist["R"]["1"] = 0

\* the recent window: the last min(total, 20) outcomes of the history
RecentWindow(seq) ==
  LET n == IF Len(seq) < 20 THEN Len(seq) ELSE 20
  IN [i \in 1..n |-> seq[Len(seq) - n + i]]

CountOf(seq, c) == Cardinality({i \in 1..Len(seq) : seq[i] = c})

\* at least 60% of a non-empty window
SixtyPercent(count, windowTotal) ==
  windowTotal > 0 /\ 100 * count >= 60 * windowTotal

\* C12: the signal list has exactly the four entries zebra, streaklong, bias,
\* ties in this order, each on or off: zebra on iff zebraMax >= 5; streaklong
\* on iff longest.R >= 5 or longest.B >= 5; bias on iff Red or Blue is at
\* least 60% of the recent window (Ties count in the total, off for an empty
\* window); ties on iff the recent window has at least 3 Ties; the window
\* tallies the last min(total, 20) outcomes
C12_FourSignals ==
  stats # NoStats =>
    LET w == RecentWindow(seqOf(history)) IN
    /\ stats.last20 = [c \in COLORS |-> CountOf(w, c)]
    /\ Len(signals) = 4
    /\ [i \in 1..4 |-> signals[i].id] = <<"zebra", "streaklong", "bias", "ties">>
    /\ \A i \in 1..4 : signals[i].on \in BOOLEAN
    /\ signals[1].on <=> stats.zebraMax >= 5
    /\ signals[2].on <=> (stats.longest["R"] >= 5 \/ stats.longest["B"] >= 5)
    /\ signals[3].on <=> (SixtyPercent(CountOf(w, "R"), Len(w))
                            \/ SixtyPercent(CountOf(w, "B"), Len(w)))
    /\ signals[4].on <=> CountOf(w, "T") >= 3

\* 22 outcomes: two older Ties outside the window, then 12 Red and 8 Ties;
\* Red is exactly 60% of the window
C12_Witness ==
  /\ stats # NoStats
  /\ Len(history) = 22
  /\ seqOf(history)[1] = "T" /\ seqOf(history)[2] = "T"
  /\ stats.last20 = [c \in COLORS |-> CASE c = "R" -> 12 [] c = "B" -> 0 [] c = "T" -> 8]
  /\ signals[3].on /\ signals[4].on /\ ~signals[1].on /\ signals[2].on

(***************************************************************************)
(* Component: properties                                                   *)
(***************************************************************************)
\* C4: no two outcomes of History share the same id
C4_NoDuplicateIds ==
  \A i \in 1..Len(history) : \A j \in 1..Len(history) :
    (i # j /\ history[i].id # NoId) => history[i].id # history[j].id

\* C5: every outcome of History has a value in {R, B, T}, an id and a timestamp
C5_LoadedHistoryValid ==
  \A i \in 1..Len(history) :
    /\ history[i].v \in COLORS
    /\ history[i].id # NoId
    /\ history[i].ts # NoTs

\* the step in which the k-th pending file read completes
OnloadOf(k) == reader' = RemoveAt(reader, k) /\ polls' = polls

\* the step in which the k-th poll callback runs to its end after res.json()
PollDoneOf(k) ==
  polls[k].pc = "json" /\ polls' = RemoveAt(polls, k) /\ reader' = reader

\* the step in which the fetch of the k-th poll callback fails
FetchFailOf(k) ==
  polls[k].pc = "fetch" /\ polls' = RemoveAt(polls, k) /\ reader' = reader

HasResultsArray(j) == j.type = "object" /\ j.results.type = "array"

\* the well-formed records of a top-level array: objects whose v is a tag
GoodRecords(items) ==
  SelectSeq(items, LAMBDA r : r.type = "object" /\ r.v.type = "string"
                                /\ r.v.str \in {<<"R">>, <<"B">>, <<"T">>})

\* the tags of a results array of an imported file (exact spelling)
GoodImportTags(items) ==
  LET good == SelectSeq(items, LAMBDA x : x.type = "string"
                                 /\ x.str \in {<<"R">>, <<"B">>, <<"T">>})
  IN [i \in 1..Len(good) |-> good[i].str[1]]

\* the tags of a results array of a poll response (either letter case)
GoodPollTags(items) ==
  LET good == SelectSeq(items, LAMBDA x : x.type = "string"
                                 /\ toUpperCase(x.str) \in {<<"R">>, <<"B">>, <<"T">>})
  IN [i \in 1..Len(good) |-> toUpperCase(good[i].str)[1]]

C7_Import(payload) ==
  IF payload.type = "array"
  THEN LET good == GoodRecords(payload.items) IN
       /\ Len(history') = Len(good)
       /\ \A i \in 1..Len(good) :
            /\ history'[i].v = good[i].v.str[1]
            /\ good[i].id # NoId => history'[i].id = good[i].id
  ELSE IF HasResultsArray(payload)
  THEN Values(history') = GoodImportTags(payload.results.items)
  ELSE history' = history

C7_Poll(payload) ==
  IF HasResultsArray(payload)
  THEN GoodPollTags(payload.results.items) # <<>>
         => Values(history') = GoodPollTags(payload.results.items)
  ELSE history' = history

C7_Step ==
  /\ \A k \in 1..Len(reader) : OnloadOf(k) => C7_Import(reader[k])
  /\ \A k \in 1..Len(polls) : PollDoneOf(k) => C7_Poll(polls[k].body)

\* C7: for JSON import and for polling alike, malformed records of a payload
\* of valid top-level shape are dropped and History is set to the valid ones
\* in their order; a payload of malformed shape leaves History unchanged
C7_PartialAcceptance == [][C7_Step]_vars

Ids(h) == {h[i].id : i \in 1..Len(h)}

C8_Step ==
  \A k \in 1..Len(polls) :
    /\ FetchFailOf(k) => history' = history
    /\ PollDoneOf(k) =>
         IF HasResultsArray(polls[k].body)
              /\ GoodPollTags(polls[k].body.results.items) # <<>>
         THEN /\ Values(history') = GoodPollTags(polls[k].body.results.items)
              /\ Ids(history') \cap Ids(history) = {}
              /\ Cardinality(Ids(history')) = Len(history')
              /\ \A i \in 1..Len(history') :
                   history'[i].id # NoId /\ history'[i].ts # NoTs
         ELSE history' = history

\* C8: a poll response with a results array whose recognized tags are not
\* empty replaces History by exactly those tags, freshly stamped; any other
\* response, and a failed fetch or JSON parse, leaves History unchanged
C8_PollReplaces == [][C8_Step]_vars


\* C13: while the poll interval is 0 no poll response replaces History: a step
\* that changes History then is a user action, which completes no fetch; this
\* includes a fetch started before the interval was set to 0
C13_Step ==
  (pollSec = 0 /\ pollSec' = 0 /\ history' # history) => polls' = polls

C13_NoReplaceWhileOff == [][C13_Step]_vars

====
